---- MODULE Spec2Model ----
(***************************************************************************)
(* A model of the NTP client of src/01-ntp/ntp-client.c: the byte-order    *)
(* normalizer (ntp_to_net / ntp_to_host), the request builder              *)
(* (build_ntp_request), the reference-id decoder (decode_reference_id)     *)
(* and the offset/delay calculator (calculate_ntp_offset).                 *)
(*                                                                         *)
(* Representation.  A uint32_t is the 4-tuple of its bytes, most           *)
(* significant first: <<b31..24, b23..16, b15..8, b7..0>>.  This keeps the *)
(* full 32-bit width (TLC's integers stop at 2^31 - 1) and makes the byte  *)
(* swap of htonl/ntohl and the shifts of decode_reference_id explicit.     *)
(* A C string is the sequence of its character codes before the NUL.       *)
(* A double is an exact integer number of half microseconds: every value   *)
(* the calculator adds, subtracts or halves is a multiple of that unit.    *)
(***************************************************************************)
EXTENDS Integers, Sequences, FiniteSets, TLC

VARIABLES
    little_endian,  \* TRUE: the host is little-endian, htonl/ntohl swap bytes
    request,        \* ntp_packet_t request_packet
    response,       \* ntp_packet_t response_packet
    recv_time,      \* ntp_timestamp_t recv_time (T4)
    result,         \* ntp_result_t result
    nulls,          \* which pointer arguments of the call are NULL
    tv,             \* the system clock gettimeofday reads: [tv_sec, tv_usec]
    stratum,        \* decode_reference_id argument
    ref_id,         \* decode_reference_id argument
    buff_sz,        \* decode_reference_id argument
    buff,           \* decode_reference_id output buffer (C string)
    rc,             \* return value of the last call
    op,             \* the last operation that acted
    p0,             \* the packet as it was before the first operation
    ntp_ts,         \* timestamp argument of ntp_time_to_string / ntp_time_to_double
    ntp_ts2,        \* a second timestamp handed to ntp_time_to_double
    dub,            \* the doubles ntp_time_to_double returned for ntp_ts, ntp_ts2
    local,          \* the local argument of ntp_time_to_string
    tm,             \* what gmtime / localtime returned (a struct tm or NULL)
    pc,             \* query_ntp_server: the statement it is at
    sock,           \* query_ntp_server: the socket, [open, opened, closed]
    ret,            \* query_ntp_server: its return value
    log,            \* query_ntp_server: the calls made so far, in order
    wire,           \* the response datagram as the server sent it
    sent,           \* send_ntp_request: what sendto returned
    received,       \* recv_ntp_response: what recvfrom returned
    clock_reads     \* number of gettimeofday calls made

\* The state of ntp_time_to_string, ntp_time_to_double and query_ntp_server.
newVars == <<ntp_ts, ntp_ts2, dub, local, tm, pc, sock, ret, log, wire,
            sent, received>>

vars == <<little_endian, request, response, recv_time, result, nulls, tv,
          stratum, ref_id, buff_sz, buff, rc, op, p0, newVars, clock_reads>>

----------------------------------------------------------------------------
(* Bounds of the model.                                                    *)

\* Number of sample 32-bit words of WordTable the inputs are drawn from.
MaxWord == 3
\* Number of sample timestamps of TimeTable the inputs are drawn from.
MaxTime == 4
\* Largest stratum below the 255 that is always included.
MaxStratum == 3
\* Largest buffer size handed to decode_reference_id.
MaxBuffSz == 17
\* Number of sample clock readings of ClockTable.
MaxClock == 3
\* Number of sample reference ids of WordTable handed to decode_reference_id.
MaxRef == 7
\* Number of sample timestamps of StampTable handed to ntp_time_to_string.
MaxStamp == 5
\* Number of sample timestamps of DoubleTable handed to ntp_time_to_double.
MaxDouble == 8
\* Number of clock readings of QueryClockTable query_ntp_server starts at.
MaxQueryClock == 2

----------------------------------------------------------------------------
(* Return codes (ntp-protocol.h, values as the doc comments give them).    *)

RC_OK == 0
RC_BAD_PACKET == -1
RC_BUFF_TOO_SMALL == -2

----------------------------------------------------------------------------
(* 32-bit words as byte tuples.                                            *)

ZeroWord == <<0, 0, 0, 0>>

\* The value of a word, for words below 2^31 only.
U32ToInt(w) == ((w[1] * 256 + w[2]) * 256 + w[3]) * 256 + w[4]

\* The uint32_t truncation of a non-negative integer below 2^31.
U32FromInt(n) ==
    <<(n \div 16777216) % 256, (n \div 65536) % 256, (n \div 256) % 256, n % 256>>

\* a + b modulo 2^32, byte by byte with carry.
Add32(a, b) ==
    LET s4 == a[4] + b[4]
        s3 == a[3] + b[3] + s4 \div 256
        s2 == a[2] + b[2] + s3 \div 256
        s1 == a[1] + b[1] + s2 \div 256
    IN  <<s1 % 256, s2 % 256, s3 % 256, s4 % 256>>

\* a - b modulo 2^32, byte by byte with borrow.
Sub32(a, b) ==
    LET d4 == a[4] - b[4]
        d3 == a[3] - b[3] - (IF d4 < 0 THEN 1 ELSE 0)
        d2 == a[2] - b[2] - (IF d3 < 0 THEN 1 ELSE 0)
        d1 == a[1] - b[1] - (IF d2 < 0 THEN 1 ELSE 0)
    IN  <<d1 % 256, d2 % 256, d3 % 256, d4 % 256>>

\* x << 8*n and x >> 8*n on uint32_t, n whole bytes.
ShiftLeftBytes(w, n) == [i \in 1..4 |-> IF i + n <= 4 THEN w[i + n] ELSE 0]
ShiftRightBytes(w, n) == [i \in 1..4 |-> IF i - n >= 1 THEN w[i - n] ELSE 0]

\* The conversion of a uint32_t to unsigned char keeps the low byte.
LowByte(w) == w[4]

----------------------------------------------------------------------------
(* Byte order: htonl / ntohl of <arpa/inet.h>.                             *)

bswap32(w) == <<w[4], w[3], w[2], w[1]>>

htonl(w) == IF little_endian THEN bswap32(w) ELSE w

ntohl(w) == IF little_endian THEN bswap32(w) ELSE w

ntp_ts_to_net(ts) ==
    [seconds |-> htonl(ts.seconds), fraction |-> htonl(ts.fraction)]

ntp_ts_to_host(ts) ==
    [seconds |-> ntohl(ts.seconds), fraction |-> ntohl(ts.fraction)]

ntp_to_net(packet) ==
    [packet EXCEPT
        !.root_delay = htonl(packet.root_delay),
        !.root_dispersion = htonl(packet.root_dispersion),
        !.reference_id = htonl(packet.reference_id),
        !.orig_time = ntp_ts_to_net(packet.orig_time),
        !.recv_time = ntp_ts_to_net(packet.recv_time),
        !.ref_time = ntp_ts_to_net(packet.ref_time),
        !.xmit_time = ntp_ts_to_net(packet.xmit_time)]

\* A conversion back that forgets one timestamp.
ntp_to_host_skips_recv_time(packet) ==
    [packet EXCEPT
        !.root_delay = ntohl(packet.root_delay),
        !.root_dispersion = ntohl(packet.root_dispersion),
        !.reference_id = ntohl(packet.reference_id),
        !.orig_time = ntp_ts_to_host(packet.orig_time),
        !.ref_time = ntp_ts_to_host(packet.ref_time),
        !.xmit_time = ntp_ts_to_host(packet.xmit_time)]

ntp_to_host(packet) ==
    [packet EXCEPT
        !.root_delay = ntohl(packet.root_delay),
        !.root_dispersion = ntohl(packet.root_dispersion),
        !.reference_id = ntohl(packet.reference_id),
        !.orig_time = ntp_ts_to_host(packet.orig_time),
        !.recv_time = ntp_ts_to_host(packet.recv_time),
        !.ref_time = ntp_ts_to_host(packet.ref_time),
        !.xmit_time = ntp_ts_to_host(packet.xmit_time)]

----------------------------------------------------------------------------
(* Sample inputs.                                                          *)

\* 0, "NIST", 207.66.79.103, 0x12345678, "GOOG" (a byte palindrome),
\* a word with an embedded zero byte, 0xFFFFFFFF.
WordTable ==
    << ZeroWord,
       <<78, 73, 83, 84>>,
       <<207, 66, 79, 103>>,
       <<18, 52, 86, 120>>,
       <<71, 79, 79, 71>>,
       <<78, 0, 83, 84>>,
       <<255, 255, 255, 255>>,
       <<10, 0, 0, 1>>,
       <<0, 0, 0, 65>> >>

Words == {WordTable[k] : k \in 1..MaxWord}

ZeroTime == [seconds |-> ZeroWord, fraction |-> ZeroWord]

\* 0.000 s, 0.050 s, 0.060 s, 0.100 s, 1.500 s, 2.250 s
\* (fraction = round(t * 2^32)).
TimeTable ==
    << ZeroTime,
       [seconds |-> ZeroWord, fraction |-> <<12, 204, 204, 205>>],
       [seconds |-> ZeroWord, fraction |-> <<15, 92, 40, 246>>],
       [seconds |-> ZeroWord, fraction |-> <<25, 153, 153, 154>>],
       [seconds |-> <<0, 0, 0, 1>>, fraction |-> <<128, 0, 0, 0>>],
       [seconds |-> <<0, 0, 0, 2>>, fraction |-> <<64, 0, 0, 0>>] >>

Times == {TimeTable[k] : k \in 1..MaxTime}

\* Timestamps whose fields are sample words, for the byte-order round trip.
WordTimes == {[seconds |-> WordTable[k], fraction |-> WordTable[MaxWord + 1 - k]] :
                 k \in 1..MaxWord}

ZeroPacket ==
    [li_vn_mode |-> 0, stratum |-> 0, poll |-> 0, precision |-> 0,
     root_delay |-> ZeroWord, root_dispersion |-> ZeroWord,
     reference_id |-> ZeroWord,
     ref_time |-> ZeroTime, orig_time |-> ZeroTime,
     recv_time |-> ZeroTime, xmit_time |-> ZeroTime]


\* A response-like packet with every 8-bit field non-zero.
SamplePackets ==
    {[li_vn_mode |-> 36, stratum |-> 2, poll |-> 6, precision |-> -24,
      root_delay |-> rd, root_dispersion |-> rp, reference_id |-> ri,
      ref_time |-> t0, orig_time |-> t1, recv_time |-> t2, xmit_time |-> t3] :
        rd \in Words, rp \in Words, ri \in Words,
        t0 \in WordTimes, t1 \in WordTimes, t2 \in WordTimes, t3 \in WordTimes}

\* A result structure nothing has been stored in (written is the model's
\* record of a store; final_dispersion is q17 / 131072 s + hus half
\* microseconds).
ZeroResult ==
    [delay |-> 0, offset |-> 0, final_dispersion |-> [q17 |-> 0, hus |-> 0],
     server_time |-> ZeroTime, client_time |-> ZeroTime, written |-> FALSE]

ZeroClock == [tv_sec |-> 0, tv_usec |-> 0]

\* No calendar result: the NULL gmtime / localtime return on failure.
NoTm == [null |-> TRUE, tm_year |-> 0, tm_mon |-> 0, tm_mday |-> 0,
         tm_hour |-> 0, tm_min |-> 0, tm_sec |-> 0]

\* No socket was created.
NoSocket == [open |-> FALSE, opened |-> 0, closed |-> 0]

\* The state of the functions that are not called.
IdleNewVars ==
    /\ ntp_ts = ZeroTime
    /\ ntp_ts2 = ZeroTime
    /\ dub = <<0, 0>>
    /\ local = 0
    /\ tm = NoTm
    /\ pc = "idle"
    /\ sock = NoSocket
    /\ ret = 0
    /\ log = <<>>
    /\ wire = ZeroPacket
    /\ sent = 0
    /\ received = 0

----------------------------------------------------------------------------
(* The byte-order round trip: ntp_to_net, then ntp_to_host, on one packet, *)
(* on a little-endian and on a big-endian host.                            *)

InitOrder ==
    /\ little_endian \in BOOLEAN
    /\ request \in SamplePackets
    /\ p0 = request
    /\ response = ZeroPacket
    /\ recv_time = ZeroTime
    /\ result = ZeroResult
    /\ nulls = {}
    /\ tv = ZeroClock
    /\ stratum = 0
    /\ ref_id = ZeroWord
    /\ buff_sz = 0
    /\ buff = <<>>
    /\ rc = 0
    /\ op = "init"
    /\ IdleNewVars
    /\ clock_reads = 0

NtpToNet ==
    /\ op = "init"
    /\ request' = ntp_to_net(request)
    /\ op' = "ntp_to_net"
    /\ UNCHANGED <<little_endian, response, recv_time, result, nulls, tv,
                   stratum, ref_id, buff_sz, buff, rc, p0>>
    /\ UNCHANGED <<newVars, clock_reads>>

NtpToHost ==
    /\ op = "ntp_to_net"
    /\ request' = ntp_to_host(request)
    /\ op' = "ntp_to_host"
    /\ UNCHANGED <<little_endian, response, recv_time, result, nulls, tv,
                   stratum, ref_id, buff_sz, buff, rc, p0>>
    /\ UNCHANGED <<newVars, clock_reads>>

NextOrder == NtpToNet \/ NtpToHost

SpecOrder == InitOrder /\ [][NextOrder]_vars

\* C1: for every packet, ntp_to_net followed by ntp_to_host restores every
\* field bit-for-bit, on a little-endian and on a big-endian host.
C1_RoundTrip == op = "ntp_to_host" => request = p0

\* The round trip has completed on a little-endian host, where htonl and
\* ntohl swap bytes, on a packet whose words are not byte palindromes.
C1_Witness ==
    /\ op = "ntp_to_host"
    /\ little_endian
    /\ bswap32(p0.root_delay) /= p0.root_delay
    /\ bswap32(p0.recv_time.seconds) /= p0.recv_time.seconds
    /\ request = p0

----------------------------------------------------------------------------
(* decode_reference_id.                                                    *)

\* The C string literal "NONE".
NONE == <<78, 79, 78, 69>>

\* printf's %u of a non-negative integer: its decimal digits.
RECURSIVE FormatU(_)
FormatU(n) ==
    IF n < 10 THEN <<48 + n>> ELSE FormatU(n \div 10) \o <<48 + (n % 10)>>

\* snprintf(buff, size, ...) of the formatted text s: at most size - 1
\* characters are stored (and nothing at all when size is 0).
snprintf(size, s) ==
    IF size <= 0 THEN <<>>
    ELSE IF Len(s) <= size - 1 THEN s ELSE SubSeq(s, 1, size - 1)

\* The C string held in a byte array: the bytes before the first NUL.
RECURSIVE CString(_)
CString(bytes) ==
    IF bytes = <<>> \/ Head(bytes) = 0 THEN <<>>
    ELSE <<Head(bytes)>> \o CString(Tail(bytes))

\* The five bytes dat[0..4] taken out of ref_id by shifts.
RefIdBytes(id) ==
    << LowByte(ShiftRightBytes(ShiftLeftBytes(id, 3), 3)),
       LowByte(ShiftRightBytes(ShiftLeftBytes(id, 2), 3)),
       LowByte(ShiftRightBytes(ShiftLeftBytes(id, 1), 3)),
       LowByte(ShiftRightBytes(id, 3)),
       0 >>

\* The dotted form printed from dat in the opposite order.
FormatIpReversed(dat) ==
    FormatU(dat[1]) \o <<46>> \o FormatU(dat[2]) \o <<46>> \o
    FormatU(dat[3]) \o <<46>> \o FormatU(dat[4])

\* "%u.%u.%u.%u" of dat[3], dat[2], dat[1], dat[0] (dat is 1-based here).
FormatIp(dat) ==
    FormatU(dat[4]) \o <<46>> \o FormatU(dat[3]) \o <<46>> \o
    FormatU(dat[2]) \o <<46>> \o FormatU(dat[1])

\* The call's outcome: the return code and the buffer's string afterwards.
decode_reference_id(st, id, b, sz) ==
    IF st >= 2 /\ sz < 16 THEN [rc |-> RC_BUFF_TOO_SMALL, buff |-> b]
    ELSE IF st < 2 /\ sz < 5 THEN [rc |-> RC_BUFF_TOO_SMALL, buff |-> b]
    ELSE LET dat == RefIdBytes(id)
         IN  IF st >= 2
             THEN [rc |-> RC_OK, buff |-> snprintf(sz, FormatIp(dat))]
             ELSE IF id = ZeroWord
                  THEN [rc |-> RC_OK, buff |-> NONE]
                  ELSE [rc |-> RC_OK, buff |-> CString(dat)]

Strata == (0..MaxStratum) \cup {255}

RefIds == {WordTable[k] : k \in 1..MaxRef}

\* What the buffer holds before the call: "?".
PriorBuff == <<63>>

InitRef ==
    /\ stratum \in Strata
    /\ ref_id \in RefIds
    /\ buff_sz \in 0..MaxBuffSz
    /\ buff = PriorBuff
    /\ little_endian \in BOOLEAN
    /\ request = ZeroPacket
    /\ p0 = ZeroPacket
    /\ response = ZeroPacket
    /\ recv_time = ZeroTime
    /\ result = ZeroResult
    /\ nulls = {}
    /\ tv = ZeroClock
    /\ rc = 0
    /\ op = "init"
    /\ IdleNewVars
    /\ clock_reads = 0

DecodeReferenceId ==
    /\ op = "init"
    /\ LET r == decode_reference_id(stratum, ref_id, buff, buff_sz)
       IN  /\ rc' = r.rc
           /\ buff' = r.buff
    /\ op' = "decode_reference_id"
    /\ UNCHANGED <<little_endian, request, response, recv_time, result, nulls,
                   tv, stratum, ref_id, buff_sz, p0>>
    /\ UNCHANGED <<newVars, clock_reads>>

NextRef == DecodeReferenceId

SpecRef == InitRef /\ [][NextRef]_vars

\* Reading a dotted-decimal string back: its segments between the dots, and
\* the number a segment of digits denotes.
RECURSIVE SplitDots(_, _)
SplitDots(s, seg) ==
    IF s = <<>> THEN <<seg>>
    ELSE IF Head(s) = 46 THEN <<seg>> \o SplitDots(Tail(s), <<>>)
    ELSE SplitDots(Tail(s), Append(seg, Head(s)))

IsDecimal(seg) ==
    /\ Len(seg) \in 1..3
    /\ \A i \in 1..Len(seg) : seg[i] \in 48..57
    /\ Len(seg) > 1 => seg[1] /= 48

RECURSIVE DecimalValue(_)
DecimalValue(seg) ==
    IF seg = <<>> THEN 0
    ELSE 10 * DecimalValue(SubSeq(seg, 1, Len(seg) - 1)) + (seg[Len(seg)] - 48)

Decoded == op = "decode_reference_id"

\* C6: decode_reference_id writes "NONE" whenever ref_id == 0, for every
\* stratum, given a buffer large enough for the result.
C6_NoneForZero ==
    (Decoded /\ ref_id = ZeroWord /\ buff_sz >= 16) => (rc = RC_OK /\ buff = NONE)

\* C7: for stratum < 2 and ref_id != 0, decode_reference_id writes the 4
\* bytes of ref_id as 4 characters, most significant byte first.
C7_AsciiBigEndian ==
    (Decoded /\ stratum < 2 /\ ref_id /= ZeroWord /\ buff_sz >= 5)
        => (rc = RC_OK /\ buff = <<ref_id[1], ref_id[2], ref_id[3], ref_id[4]>>)

\* C8: for stratum >= 2 and ref_id != 0, decode_reference_id writes
\* "a.b.c.d" with a = bits 31..24, b = bits 23..16, c = bits 15..8 and
\* d = bits 7..0 of ref_id in decimal, at most 15 characters long.
C8_DottedDecimal ==
    (Decoded /\ stratum >= 2 /\ ref_id /= ZeroWord /\ buff_sz >= 16)
        => /\ rc = RC_OK
           /\ Len(buff) <= 15
           /\ LET parts == SplitDots(buff, <<>>)
              IN  /\ Len(parts) = 4
                  /\ \A i \in 1..4 : /\ IsDecimal(parts[i])
                                     /\ DecimalValue(parts[i]) = ref_id[i]

\* Stratum 2 and ref_id 0xCF424F67 gave "207.66.79.103".
C8_Witness ==
    /\ Decoded
    /\ stratum >= 2
    /\ buff_sz >= 16
    /\ ref_id = <<207, 66, 79, 103>>
    /\ stratum = 2
    /\ buff = <<50, 48, 55, 46, 54, 54, 46, 55, 57, 46, 49, 48, 51>>

\* The buffer size the doc comment requires: 5 bytes when ref_id == 0 or
\* stratum < 2, 16 bytes for the IP form.
BytesNeeded(st, id) == IF id = ZeroWord \/ st < 2 THEN 5 ELSE 16

\* C9: decode_reference_id returns RC_BUFF_TOO_SMALL only when the buffer
\* cannot hold the result: fewer than 5 bytes when ref_id == 0 or
\* stratum < 2, fewer than 16 bytes for the IP form.
C9_TooSmallOnlyWhenNeeded ==
    (Decoded /\ rc = RC_BUFF_TOO_SMALL) => buff_sz < BytesNeeded(stratum, ref_id)

----------------------------------------------------------------------------
(* Timestamp conversions.                                                  *)

\* Microseconds in a second (USEC_INCREMENTS; pow(10,6) in the source).
USEC == 1000000

\* FRACTIONS_TO_MICROSECONDS(f) = round(f * 10^6 / 2^32), computed in steps
\* that stay below 2^31: f = hi * 2^16 + lo and 10^6 / 2^32 = 15625 / 2^26.
FRACTIONS_TO_MICROSECONDS(f) ==
    LET hi == f[1] * 256 + f[2]
        lo == f[3] * 256 + f[4]
    IN  (hi * 15625 + 512 + (lo * 15625) \div 65536) \div 1024

\* seconds + microseconds / 10^6, in half microseconds.
ntp_time_to_double(timestamp) ==
    2 * (U32ToInt(timestamp.seconds) * USEC
         + FRACTIONS_TO_MICROSECONDS(timestamp.fraction))

\* GET_NTP_Q1616_TS(x): the upper 16 bits are whole seconds (signed), the
\* lower 16 bits are 1/65536 s; the value in units of 1/65536 s.
GET_NTP_Q1616_TS(x) ==
    LET hi == x[1] * 256 + x[2]
        lo == x[3] * 256 + x[4]
    IN  (IF hi >= 32768 THEN hi - 65536 ELSE hi) * 65536 + lo

----------------------------------------------------------------------------
(* calculate_ntp_offset.                                                   *)

\* A delay that is clamped at zero.
ntp_delay_clamped(t1, t2, t3, t4) ==
    IF (t4 - t1) - (t3 - t2) < 0 THEN 0 ELSE (t4 - t1) - (t3 - t2)

\* result->delay = (t4-t1)-(t3-t2)
ntp_delay(t1, t2, t3, t4) == (t4 - t1) - (t3 - t2)

\* result->offset = ((t2-t1)-(t3-t4))/2; the operand is a whole number of
\* microseconds, so halving it is exact in half microseconds.
ntp_offset(t1, t2, t3, t4) == ((t2 - t1) - (t3 - t4)) \div 2

\* A dispersion that adds the whole root delay instead of half of it.
ntp_final_dispersion_whole_root_delay(resp, delay) ==
    [q17 |-> 2 * GET_NTP_Q1616_TS(resp.root_dispersion)
             + 2 * GET_NTP_Q1616_TS(resp.root_delay),
     hus |-> delay \div 2]

\* result->final_dispersion = Q(root_dispersion) + Q(root_delay)/2 + delay/2:
\* the sum of q17 / 131072 s and hus half microseconds.
ntp_final_dispersion(resp, delay) ==
    [q17 |-> 2 * GET_NTP_Q1616_TS(resp.root_dispersion)
             + GET_NTP_Q1616_TS(resp.root_delay),
     hus |-> delay \div 2]

\* The body of calculate_ntp_offset after its NULL checks; T4 is what is
\* read through recv_time.
calculate_ntp_offset(req, resp, T4) ==
    LET T1 == resp.orig_time
        T2 == resp.recv_time
        T3 == resp.xmit_time
        t1 == ntp_time_to_double(T1)
        t2 == ntp_time_to_double(T2)
        t3 == ntp_time_to_double(T3)
        t4 == ntp_time_to_double(T4)
        delay == ntp_delay(t1, t2, t3, t4)
    IN  [delay |-> delay,
         offset |-> ntp_offset(t1, t2, t3, t4),
         final_dispersion |-> ntp_final_dispersion(resp, delay),
         server_time |-> T3,
         client_time |-> T4,
         written |-> TRUE]

Pointers == {"request", "response", "recv_time", "result"}

\* (root_dispersion, root_delay) of the sample responses:
\* 328/65536 s and 655/65536 s, and 1 + 2/65536 s and 2.5 s.
RootPairs ==
    { << <<0, 0, 1, 72>>, <<0, 0, 2, 143>> >>,
      << <<0, 1, 0, 2>>, <<0, 2, 128, 0>> >> }

InitCalc ==
    /\ nulls \in SUBSET Pointers
    /\ \E x \in Times :
           request = [ZeroPacket EXCEPT !.li_vn_mode = 227, !.poll = 6,
                                        !.precision = -20, !.xmit_time = x]
    /\ \E o \in Times, r \in Times, x \in Times, rp \in RootPairs :
           response = [ZeroPacket EXCEPT !.li_vn_mode = 36, !.stratum = 2,
                                         !.poll = 6, !.precision = -24,
                                         !.root_dispersion = rp[1],
                                         !.root_delay = rp[2],
                                         !.orig_time = o, !.recv_time = r,
                                         !.xmit_time = x]
    /\ recv_time \in Times
    /\ result = ZeroResult
    /\ little_endian = TRUE
    /\ p0 = request
    /\ tv = ZeroClock
    /\ stratum = 0
    /\ ref_id = ZeroWord
    /\ buff_sz = 0
    /\ buff = <<>>
    /\ rc = 0
    /\ op = "init"
    /\ IdleNewVars
    /\ clock_reads = 0

\* if (!request || !response || !result) return -1;
CalculateNullArgument ==
    /\ op = "init"
    /\ nulls \cap {"request", "response", "result"} /= {}
    /\ rc' = -1
    /\ op' = "calculate_ntp_offset"
    /\ UNCHANGED <<little_endian, request, response, recv_time, result, nulls,
                   tv, stratum, ref_id, buff_sz, buff, p0>>
    /\ UNCHANGED <<newVars, clock_reads>>

\* All four pointers are valid.
CalculateNtpOffset ==
    /\ op = "init"
    /\ nulls = {}
    /\ result' = calculate_ntp_offset(request, response, recv_time)
    /\ rc' = 0
    /\ op' = "calculate_ntp_offset"
    /\ UNCHANGED <<little_endian, request, response, recv_time, nulls,
                   tv, stratum, ref_id, buff_sz, buff, p0>>
    /\ UNCHANGED <<newVars, clock_reads>>

\* recv_time alone is NULL: it passes the check and ntp_time_to_double reads
\* through it.  The read is undefined: the process is killed (SIGSEGV), or
\* the read yields some value and the function carries on with it.
CalculateNullRecvTime ==
    /\ op = "init"
    /\ nulls = {"recv_time"}
    /\ \/ /\ op' = "SIGSEGV"
          /\ UNCHANGED <<result, rc>>
       \/ /\ \E garbage \in Times :
                 result' = calculate_ntp_offset(request, response, garbage)
          /\ rc' = 0
          /\ op' = "calculate_ntp_offset"
    /\ UNCHANGED <<little_endian, request, response, recv_time, nulls,
                   tv, stratum, ref_id, buff_sz, buff, p0>>
    /\ UNCHANGED <<newVars, clock_reads>>

NextCalc == CalculateNullArgument \/ CalculateNtpOffset \/ CalculateNullRecvTime

SpecCalc == InitCalc /\ [][NextCalc]_vars

Calculated == op = "calculate_ntp_offset"

\* The four timestamps as doubles, T1 read as named.
D_T1_originate == ntp_time_to_double(response.orig_time)
D_T1_request == ntp_time_to_double(request.xmit_time)
D_T2 == ntp_time_to_double(response.recv_time)
D_T3 == ntp_time_to_double(response.xmit_time)
D_T4 == ntp_time_to_double(recv_time)

\* C2: offset = ((T2 - T1) + (T3 - T4)) / 2, stated where the response
\* echoes the request's transmit time, so that T1 is the same either way.
C2_OffsetFormula ==
    (Calculated /\ nulls = {} /\ response.orig_time = request.xmit_time)
        => 2 * result.offset = (D_T2 - D_T1_originate) + (D_T3 - D_T4)

\* C3: delay = (T4 - T1) - (T3 - T2) is stored without clamping, and the
\* call returns 0 also when the delay is negative (T1 being the originate
\* timestamp the function takes as T1).
C3_DelayFormula ==
    (Calculated /\ nulls = {})
        => /\ rc = 0
           /\ result.written
           /\ result.delay + (D_T3 - D_T2) = D_T4 - D_T1_originate

\* A call that stored a negative delay and returned 0: the server held the
\* packet (T3 - T2) longer than the whole round trip (T4 - T1) took.
C3_Witness ==
    /\ Calculated
    /\ nulls = {}
    /\ rc = 0
    /\ D_T4 >= D_T1_originate
    /\ D_T3 - D_T2 > D_T4 - D_T1_originate
    /\ result.delay < 0

\* C4: T1 is the request packet's xmit_time: delay and offset are computed
\* from request->xmit_time and do not depend on response->orig_time.
C4_T1IsRequestXmit ==
    (Calculated /\ nulls = {})
        => /\ result.delay = ntp_delay(D_T1_request, D_T2, D_T3, D_T4)
           /\ result.offset = ntp_offset(D_T1_request, D_T2, D_T3, D_T4)

\* C11: final_dispersion = Q16.16(root_dispersion) + Q16.16(root_delay)/2
\* + delay/2, delay being the value stored in result->delay and a Q16.16
\* field being its 32-bit value counted in units of 1/65536 s.  In units of
\* 1/131072 s the first two terms are 2 * root_dispersion + root_delay.
C11_FinalDispersion ==
    (Calculated /\ nulls = {})
        => /\ result.final_dispersion.q17 =
                  2 * U32ToInt(response.root_dispersion)
                  + U32ToInt(response.root_delay)
           /\ 2 * result.final_dispersion.hus = result.delay

\* root_dispersion 0x00010002 (1 + 2/65536 s) and root_delay 0x00028000
\* (2.5 s) with a measured delay that is not zero: 294916 / 131072 s plus
\* half the delay.
C11_Witness ==
    /\ Calculated
    /\ nulls = {}
    /\ response.root_dispersion = <<0, 1, 0, 2>>
    /\ response.root_delay = <<0, 2, 128, 0>>
    /\ result.delay > 0
    /\ result.final_dispersion.q17 = 294916
    /\ 2 * result.final_dispersion.hus = result.delay

\* C5: whenever any of the four pointer arguments is NULL the call returns
\* -1 and writes nothing to the result structure.
C5_NullReturnsError ==
    (op /= "init" /\ nulls /= {})
        => (Calculated /\ rc = -1 /\ result = ZeroResult)

----------------------------------------------------------------------------
(* get_current_ntp_time and build_ntp_request.                             *)

\* NTP_EPOCH_OFFSET = 2208988800 = 0x83AA7E80, the seconds from 1900 to 1970.
NTP_EPOCH_OFFSET == <<131, 170, 126, 128>>

\* UNIX_TO_NTP_SECONDS(s): s + NTP_EPOCH_OFFSET in 32 bits.
UNIX_TO_NTP_SECONDS(s) == Add32(U32FromInt(s), NTP_EPOCH_OFFSET)

\* NTP_TO_UNIX_SECONDS(s): s - NTP_EPOCH_OFFSET in 32 bits.
NTP_TO_UNIX_SECONDS(s) == Sub32(s, NTP_EPOCH_OFFSET)

\* MICROSECONDS_TO_FRACTIONS(us) = round(us * 2^32 / 10^6)
\* = floor((4 us * 2^24 + 7812) / 15625), by long division in base 256
\* (7812 = 30 * 256 + 132), one byte of the quotient at a time.
MICROSECONDS_TO_FRACTIONS(us) ==
    LET n  == 4 * us
        q1 == n \div 15625
        r1 == n % 15625
        q2 == (r1 * 256) \div 15625
        r2 == (r1 * 256) % 15625
        q3 == (r2 * 256 + 30) \div 15625
        r3 == (r2 * 256 + 30) % 15625
        q4 == (r3 * 256 + 132) \div 15625
    IN  <<q1, q2, q3, q4>>

\* SET_NTP_LI_VN_MODE: the control byte packed 2/3/3.
SET_NTP_LI_VN_MODE(li, vn, mode) == (li % 4) * 64 + (vn % 8) * 8 + (mode % 8)

GET_NTP_LI(packet) == (packet.li_vn_mode \div 64) % 4
GET_NTP_VN(packet) == (packet.li_vn_mode \div 8) % 8
GET_NTP_MODE(packet) == packet.li_vn_mode % 8

\* The timestamp get_current_ntp_time stores: the clock tv in NTP format.
get_current_ntp_time ==
    [seconds |-> UNIX_TO_NTP_SECONDS(tv.tv_sec),
     fraction |-> MICROSECONDS_TO_FRACTIONS(tv.tv_usec)]

\* A builder that sets its fields without clearing the packet first.
build_ntp_request_without_memset(packet) ==
    [packet EXCEPT !.li_vn_mode = SET_NTP_LI_VN_MODE(3, 4, 3),
                   !.poll = 6,
                   !.precision = -20,
                   !.xmit_time = get_current_ntp_time]

\* The packet build_ntp_request leaves behind (packet is not NULL).
build_ntp_request(packet) ==
    [ZeroPacket EXCEPT !.li_vn_mode = SET_NTP_LI_VN_MODE(3, 4, 3),
                       !.poll = 6,
                       !.precision = -20,
                       !.xmit_time = get_current_ntp_time]

\* 1970-01-01 00:00:00.000000, 2025-09-15 13:36:14.541216,
\* 2036-02-07 06:28:16.999999 (the NTP seconds wrap to 0), and others.
ClockTable ==
    << [tv_sec |-> 0, tv_usec |-> 0],
       [tv_sec |-> 1757943374, tv_usec |-> 541216],
       [tv_sec |-> 2085978496, tv_usec |-> 999999],
       [tv_sec |-> 1, tv_usec |-> 1],
       [tv_sec |-> 2147483647, tv_usec |-> 500000] >>

Clocks == {ClockTable[k] : k \in 1..MaxClock}

InitBuild ==
    /\ request \in SamplePackets
    /\ p0 = request
    /\ tv \in Clocks
    /\ nulls \in {{}, {"packet"}}
    /\ little_endian = TRUE
    /\ response = ZeroPacket
    /\ recv_time = ZeroTime
    /\ result = ZeroResult
    /\ stratum = 0
    /\ ref_id = ZeroWord
    /\ buff_sz = 0
    /\ buff = <<>>
    /\ rc = 0
    /\ op = "init"
    /\ IdleNewVars
    /\ clock_reads = 0

\* A build_ntp_request that tests the pointer only after the memset and the
\* clock reading.
BuildNullPacketCheckedLast ==
    /\ op = "init"
    /\ nulls = {"packet"}
    /\ request' = build_ntp_request(request)
    /\ clock_reads' = clock_reads + 1
    /\ rc' = RC_BAD_PACKET
    /\ op' = "build_ntp_request"
    /\ UNCHANGED <<little_endian, response, recv_time, result, nulls,
                   tv, stratum, ref_id, buff_sz, buff, p0>>
    /\ UNCHANGED newVars

\* if (!packet) return RC_BAD_PACKET;
BuildNullPacket ==
    /\ op = "init"
    /\ nulls = {"packet"}
    /\ rc' = RC_BAD_PACKET
    /\ op' = "build_ntp_request"
    /\ UNCHANGED <<little_endian, request, response, recv_time, result, nulls,
                   tv, stratum, ref_id, buff_sz, buff, p0>>
    /\ UNCHANGED <<newVars, clock_reads>>

BuildNtpRequest ==
    /\ op = "init"
    /\ nulls = {}
    /\ request' = build_ntp_request(request)
    /\ rc' = RC_OK
    /\ op' = "build_ntp_request"
    /\ UNCHANGED <<little_endian, response, recv_time, result, nulls,
                   tv, stratum, ref_id, buff_sz, buff, p0>>
    /\ clock_reads' = clock_reads + 1
    /\ UNCHANGED newVars

NextBuild == BuildNullPacket \/ BuildNtpRequest

SpecBuild == InitBuild /\ [][NextBuild]_vars

Built == op = "build_ntp_request" /\ nulls = {}

\* C10: after build_ntp_request succeeds, whatever the packet held before,
\* it has leap indicator 3, version 4, mode 3 packed 2/3/3, stratum 0,
\* poll 6, precision -20, root_delay = root_dispersion = reference_id = 0,
\* ref_time, orig_time and recv_time zero, and xmit_time the current clock
\* reading in NTP format, in host byte order.
C10_RequestFields ==
    Built =>
        /\ rc = RC_OK
        /\ request.li_vn_mode = 3 * 64 + 4 * 8 + 3
        /\ GET_NTP_LI(request) = 3
        /\ GET_NTP_VN(request) = 4
        /\ GET_NTP_MODE(request) = 3
        /\ request.stratum = 0
        /\ request.poll = 6
        /\ request.precision = -20
        /\ request.root_delay = ZeroWord
        /\ request.root_dispersion = ZeroWord
        /\ request.reference_id = ZeroWord
        /\ request.ref_time = ZeroTime
        /\ request.orig_time = ZeroTime
        /\ request.recv_time = ZeroTime
        /\ request.xmit_time = get_current_ntp_time
        /\ NTP_TO_UNIX_SECONDS(request.xmit_time.seconds) = U32FromInt(tv.tv_sec)

\* The request built at 2025-09-15 13:36:14.541216 UTC over a packet that
\* held other values: its transmit time is 3966932174 s (0xEC7294CE) and
\* 2324505020 / 2^32 s (0x8A8D21BC).
C10_Witness ==
    /\ Built
    /\ p0.root_delay /= ZeroWord
    /\ p0.recv_time /= ZeroTime
    /\ tv = [tv_sec |-> 1757943374, tv_usec |-> 541216]
    /\ request.xmit_time =
           [seconds |-> <<236, 114, 148, 206>>, fraction |-> <<138, 141, 33, 188>>]

\* C18: build_ntp_request with a NULL packet returns RC_BAD_PACKET (-1),
\* writes no memory and does not read the clock; with a packet it always
\* returns RC_OK (0).
C18_NullPacketRejected ==
    (op = "build_ntp_request")
        => /\ (nulls = {"packet"})
                  => (rc = RC_BAD_PACKET /\ rc = -1 /\ request = p0 /\ clock_reads = 0)
           /\ (nulls = {}) => (rc = RC_OK /\ rc = 0)

\* build_ntp_request(NULL) has returned; the memory a packet would occupy
\* still holds the values it held before, which are not those of a request.
C18_Witness ==
    /\ op = "build_ntp_request"
    /\ nulls = {"packet"}
    /\ rc = -1
    /\ request = p0
    /\ request.precision /= -20
    /\ clock_reads = 0

----------------------------------------------------------------------------
(* ntp_time_to_string: gmtime / localtime and the snprintf format.         *)

\* The days and the second of the day of a 32-bit count of seconds: w
\* divided by 86400, by long division in base 256.
DaysAndSeconds(w) ==
    LET r3 == (w[1] * 256 + w[2]) * 256 + w[3]
        r4 == (r3 % 86400) * 256 + w[4]
    IN  [days |-> (r3 \div 86400) * 256 + r4 \div 86400, sod |-> r4 % 86400]

\* The struct tm of day number days (0 = 1970-01-01) and second sod of the
\* day, in the proleptic Gregorian calendar.
CalendarOf(days, sod) ==
    LET z   == days + 719468
        era == z \div 146097
        doe == z - era * 146097
        yoe == (doe - doe \div 1460 + doe \div 36524 - doe \div 146096) \div 365
        doy == doe - (365 * yoe + yoe \div 4 - yoe \div 100)
        mp  == (5 * doy + 2) \div 153
        d   == doy - (153 * mp + 2) \div 5 + 1
        m   == IF mp < 10 THEN mp + 3 ELSE mp - 9
        y   == yoe + era * 400 + (IF m <= 2 THEN 1 ELSE 0)
    IN  [null |-> FALSE, tm_year |-> y - 1900, tm_mon |-> m - 1, tm_mday |-> d,
         tm_hour |-> sod \div 3600, tm_min |-> (sod \div 60) % 60,
         tm_sec |-> sod % 60]

\* gmtime(&unix_seconds) when it succeeds.
gmtime(unix_seconds) ==
    LET ds == DaysAndSeconds(unix_seconds) IN CalendarOf(ds.days, ds.sod)

\* localtime(&unix_seconds) when it succeeds, in a zone utc_offset seconds
\* east of UTC.
localtime(unix_seconds, utc_offset) ==
    LET ds == DaysAndSeconds(unix_seconds)
        t  == ds.sod + utc_offset
    IN  CalendarOf(ds.days + t \div 86400, t % 86400)

\* The zones localtime is run in: UTC, UTC-04:00, UTC+05:30.
UtcOffsets == {0, -14400, 19800}

\* printf's %0<width>d of a non-negative integer.
RECURSIVE FormatPadded(_, _)
FormatPadded(n, width) ==
    IF Len(FormatU(n)) >= width THEN FormatU(n)
    ELSE <<48>> \o FormatPadded(n, width - 1)

\* "%d-%d-%d %d:%02d:%02d.%06ld" of 1900+tm_year, 1+tm_mon, tm_mday,
\* tm_hour, tm_min, tm_sec, microseconds.
FormatTime(t, microseconds) ==
    FormatU(1900 + t.tm_year) \o <<45>> \o FormatU(1 + t.tm_mon) \o <<45>>
    \o FormatU(t.tm_mday) \o <<32>> \o FormatU(t.tm_hour) \o <<58>>
    \o FormatPadded(t.tm_min, 2) \o <<58>> \o FormatPadded(t.tm_sec, 2) \o <<46>>
    \o FormatPadded(microseconds, 6)

\* What ntp_time_to_string leaves in the buffer, t being what is read
\* through the pointer gmtime / localtime returned.
ntp_time_to_string(ts, buffer_size, t) ==
    snprintf(buffer_size, FormatTime(t, FRACTIONS_TO_MICROSECONDS(ts.fraction)))

\* 2025-09-15 13:36:14.541216, 2025-12-25 10:11:12.000004,
\* 2024-02-29 03:04:05.999999, 2000-01-01 00:00:00.000000,
\* 1999-12-31 23:59:59.123456, 2036-02-07 06:28:15.500000 (all UTC).
StampTable ==
    << [seconds |-> <<236, 114, 148, 206>>, fraction |-> <<138, 141, 33, 188>>],
       [seconds |-> <<236, 247, 140, 64>>, fraction |-> <<0, 0, 67, 28>>],
       [seconds |-> <<233, 138, 114, 165>>, fraction |-> <<255, 255, 239, 57>>],
       [seconds |-> <<188, 23, 194, 0>>, fraction |-> ZeroWord],
       [seconds |-> <<188, 23, 193, 255>>, fraction |-> <<31, 154, 207, 250>>],
       [seconds |-> <<255, 255, 255, 255>>, fraction |-> <<128, 0, 0, 0>>] >>

Stamps == {StampTable[k] : k \in 1..MaxStamp}

\* The buffer sizes of the callers (50) and two smaller ones.
StringBuffSizes == {MaxBuffSz, 27, 50}

\* What a read through the NULL pointer may yield when it does not trap.
GarbageTms ==
    {[null |-> FALSE, tm_year |-> 0, tm_mon |-> 0, tm_mday |-> 0,
      tm_hour |-> 0, tm_min |-> 0, tm_sec |-> 0],
     [null |-> FALSE, tm_year |-> 70, tm_mon |-> 11, tm_mday |-> 31,
      tm_hour |-> 23, tm_min |-> 59, tm_sec |-> 59]}

InitString ==
    /\ ntp_ts \in Stamps
    /\ local \in {0, 1}
    /\ buff_sz \in StringBuffSizes
    /\ buff = PriorBuff
    /\ tm = NoTm
    /\ ntp_ts2 = ZeroTime
    /\ dub = <<0, 0>>
    /\ pc = "idle"
    /\ sock = NoSocket
    /\ ret = 0
    /\ log = <<>>
    /\ wire = ZeroPacket
    /\ sent = 0
    /\ received = 0
    /\ clock_reads = 0
    /\ little_endian = TRUE
    /\ request = ZeroPacket
    /\ p0 = ZeroPacket
    /\ response = ZeroPacket
    /\ recv_time = ZeroTime
    /\ result = ZeroResult
    /\ nulls = {}
    /\ tv = ZeroClock
    /\ stratum = 0
    /\ ref_id = ZeroWord
    /\ rc = 0
    /\ op = "init"

\* Everything ntp_time_to_string leaves alone.
StringUnchanged ==
    UNCHANGED <<little_endian, request, response, recv_time, result, nulls, tv,
                stratum, ref_id, buff_sz, rc, p0, ntp_ts, ntp_ts2, dub, local,
                pc, sock, ret, log, wire, sent, received,
                   clock_reads>>

\* gmtime / localtime returns a struct tm.
NtpTimeToString ==
    /\ op = "init"
    /\ LET unix_seconds == NTP_TO_UNIX_SECONDS(ntp_ts.seconds)
       IN  IF local /= 0
           THEN \E z \in UtcOffsets : tm' = localtime(unix_seconds, z)
           ELSE tm' = gmtime(unix_seconds)
    /\ buff' = ntp_time_to_string(ntp_ts, buff_sz, tm')
    /\ op' = "ntp_time_to_string"
    /\ StringUnchanged

\* gmtime / localtime returns NULL.  The function has no test for it and
\* reads t->tm_year through the NULL pointer.  The read is undefined: the
\* process is killed (SIGSEGV), or the reads yield some values and they are
\* formatted.
NtpTimeToStringNoCalendar ==
    /\ op = "init"
    /\ tm' = NoTm
    /\ \/ /\ op' = "SIGSEGV"
          /\ UNCHANGED buff
       \/ /\ \E garbage \in GarbageTms :
                 buff' = ntp_time_to_string(ntp_ts, buff_sz, garbage)
          /\ op' = "ntp_time_to_string"
    /\ StringUnchanged

NextString == NtpTimeToString \/ NtpTimeToStringNoCalendar

SpecString == InitString /\ [][NextString]_vars

\* The C string literal "INVALID_TIME".
INVALID_TIME == <<73, 78, 86, 65, 76, 73, 68, 95, 84, 73, 77, 69>>

\* C12: when the calendar conversion fails, ntp_time_to_string writes
\* "INVALID_TIME" into the buffer and returns normally, without reading
\* through the missing calendar result.
C12_InvalidTimeSentinel ==
    (op /= "init" /\ tm.null)
        => (op = "ntp_time_to_string" /\ buff = snprintf(buff_sz, INVALID_TIME))

IsDigit(c) == c \in 48..57

\* C14: when the calendar conversion succeeds (and the buffer holds 27
\* bytes), ntp_time_to_string renders exactly "YYYY-MM-DD HH:MM:SS.uuuuuu":
\* 26 characters, digits everywhere but at the separators.
C14_FixedWidthFormat ==
    (op = "ntp_time_to_string" /\ ~tm.null /\ buff_sz >= 27)
        => /\ Len(buff) = 26
           /\ buff[5] = 45 /\ buff[8] = 45 /\ buff[11] = 32
           /\ buff[14] = 58 /\ buff[17] = 58 /\ buff[20] = 46
           /\ \A i \in (1..26) \ {5, 8, 11, 14, 17, 20} : IsDigit(buff[i])

----------------------------------------------------------------------------
(* ntp_time_to_double on pairs of timestamps.                              *)

\* Timestamps of the first seconds of an NTP era; entries 1 and 2, and 5
\* and 6, have fractions one unit apart.
DoubleTable ==
    << [seconds |-> ZeroWord, fraction |-> <<138, 141, 33, 190>>],
       [seconds |-> ZeroWord, fraction |-> <<138, 141, 33, 191>>],
       [seconds |-> ZeroWord, fraction |-> <<138, 141, 50, 130>>],
       [seconds |-> ZeroWord, fraction |-> ZeroWord],
       [seconds |-> <<0, 0, 0, 1>>, fraction |-> <<128, 0, 0, 0>>],
       [seconds |-> <<0, 0, 0, 1>>, fraction |-> <<128, 0, 0, 1>>],
       [seconds |-> <<0, 0, 0, 1>>, fraction |-> <<64, 0, 0, 0>>],
       [seconds |-> <<0, 0, 0, 2>>, fraction |-> <<128, 0, 0, 0>>],
       [seconds |-> <<0, 0, 0, 2>>, fraction |-> <<0, 0, 16, 199>>],
       [seconds |-> <<0, 0, 0, 3>>, fraction |-> <<0, 0, 33, 142>>] >>

DoubleStamps == {DoubleTable[k] : k \in 1..MaxDouble}

InitDouble ==
    /\ ntp_ts \in DoubleStamps
    /\ ntp_ts2 \in DoubleStamps
    /\ dub = <<0, 0>>
    /\ local = 0
    /\ tm = NoTm
    /\ buff_sz = 0
    /\ buff = <<>>
    /\ pc = "idle"
    /\ sock = NoSocket
    /\ ret = 0
    /\ log = <<>>
    /\ wire = ZeroPacket
    /\ sent = 0
    /\ received = 0
    /\ clock_reads = 0
    /\ little_endian = TRUE
    /\ request = ZeroPacket
    /\ p0 = ZeroPacket
    /\ response = ZeroPacket
    /\ recv_time = ZeroTime
    /\ result = ZeroResult
    /\ nulls = {}
    /\ tv = ZeroClock
    /\ stratum = 0
    /\ ref_id = ZeroWord
    /\ rc = 0
    /\ op = "init"

\* ntp_time_to_double(&ntp_ts) and ntp_time_to_double(&ntp_ts2), as
\* calculate_ntp_offset calls it on several timestamps in a row.
NtpTimeToDouble ==
    /\ op = "init"
    /\ dub' = <<ntp_time_to_double(ntp_ts), ntp_time_to_double(ntp_ts2)>>
    /\ op' = "ntp_time_to_double"
    /\ UNCHANGED <<little_endian, request, response, recv_time, result, nulls,
                   tv, stratum, ref_id, buff_sz, buff, rc, p0, ntp_ts, ntp_ts2,
                   local, tm, pc, sock, ret, log, wire, sent, received,
                   clock_reads>>

NextDouble == NtpTimeToDouble

SpecDouble == InitDouble /\ [][NextDouble]_vars

\* C13: ntp_time_to_double keeps the whole fraction (seconds +
\* fraction / 2^32), so two timestamps with the same seconds and different
\* fractions have different values.
C13_DistinctFractionsDistinctValues ==
    (/\ op = "ntp_time_to_double"
     /\ ntp_ts.seconds = ntp_ts2.seconds
     /\ ntp_ts.fraction /= ntp_ts2.fraction)
        => dub[1] /= dub[2]

----------------------------------------------------------------------------
(* query_ntp_server, statement by statement.                               *)

\* sizeof(ntp_packet_t): the 48 bytes of an NTP packet.
PACKET_SIZE == 48

\* Clock readings around 2036-02-07 06:28:16 UTC, where the NTP seconds
\* start again at 0.
QueryClockTable ==
    << [tv_sec |-> 2085978496, tv_usec |-> 100000],
       [tv_sec |-> 2085978496, tv_usec |-> 250000],
       [tv_sec |-> 2085978497, tv_usec |-> 0] >>

QueryClocks == {QueryClockTable[k] : k \in 1..MaxQueryClock}

\* The clock t, us microseconds later.
AdvanceClock(t, us) ==
    [tv_sec |-> t.tv_sec + (t.tv_usec + us) \div USEC,
     tv_usec |-> (t.tv_usec + us) % USEC]

\* Microseconds that pass while recvfrom waits.
RoundTrips == {40000, 1500000}

\* What the stack slot of request_packet may hold before build_ntp_request.
StackPackets ==
    {ZeroPacket,
     [ZeroPacket EXCEPT !.li_vn_mode = 36, !.stratum = 2, !.poll = 9,
                        !.root_delay = <<18, 52, 86, 120>>,
                        !.orig_time = [seconds |-> <<1, 2, 3, 4>>,
                                       fraction |-> <<5, 6, 7, 8>>]]}

\* The 32-bit number a big-endian reader finds in the four bytes that hold w
\* in this host's memory, and the other way round.
WireWord(w) == IF little_endian THEN <<w[4], w[3], w[2], w[1]>> ELSE w

WireTime(ts) == [seconds |-> WireWord(ts.seconds), fraction |-> WireWord(ts.fraction)]

\* A packet in this host's memory and the numbers it carries on the wire
\* (network byte order), either way round.
WirePacket(p) ==
    [li_vn_mode |-> p.li_vn_mode, stratum |-> p.stratum, poll |-> p.poll,
     precision |-> p.precision,
     root_delay |-> WireWord(p.root_delay),
     root_dispersion |-> WireWord(p.root_dispersion),
     reference_id |-> WireWord(p.reference_id),
     ref_time |-> WireTime(p.ref_time), orig_time |-> WireTime(p.orig_time),
     recv_time |-> WireTime(p.recv_time), xmit_time |-> WireTime(p.xmit_time)]

\* The reply of a stratum 2 server to the datagram datagram (numbers as on
\* the wire): it echoes the transmit time it read as originate time, and
\* stamps T2 and T3 with its own clock.
ServerReply(datagram, T2, T3) ==
    [li_vn_mode |-> SET_NTP_LI_VN_MODE(0, 4, 4), stratum |-> 2, poll |-> 6,
     precision |-> -24,
     root_delay |-> <<0, 0, 2, 143>>, root_dispersion |-> <<0, 0, 1, 72>>,
     reference_id |-> <<207, 66, 79, 103>>,
     ref_time |-> ZeroTime, orig_time |-> datagram.xmit_time,
     recv_time |-> T2, xmit_time |-> T3]

\* One entry of the call log: the function called and what it returned
\* (0 for a void function).
Entry(c, v) == [call |-> c, rv |-> v]

close(s) == [s EXCEPT !.open = FALSE, !.closed = @ + 1]

InitQuery ==
    /\ little_endian \in BOOLEAN
    /\ tv \in QueryClocks
    /\ request \in StackPackets
    /\ p0 = request
    /\ response = ZeroPacket
    /\ recv_time = ZeroTime
    /\ result = ZeroResult
    /\ nulls = {}
    /\ stratum = 0
    /\ ref_id = ZeroWord
    /\ buff_sz = 0
    /\ buff = <<>>
    /\ rc = 0
    /\ op = "init"
    /\ ntp_ts = ZeroTime
    /\ ntp_ts2 = ZeroTime
    /\ dub = <<0, 0>>
    /\ local = 0
    /\ tm = NoTm
    /\ pc = "create_udp_socket"
    /\ sock = NoSocket
    /\ ret = 0
    /\ log = <<>>
    /\ wire = ZeroPacket
    /\ sent = 0
    /\ received = 0
    /\ clock_reads = 0

\* What no statement of query_ntp_server touches.
QueryFixed ==
    UNCHANGED <<little_endian, nulls, stratum, ref_id, buff_sz, buff, rc,
                ntp_ts, ntp_ts2, dub, local, tm>>

\* int sockfd = create_udp_socket(); if (sockfd < 0) return -1;
\* socket() fails, or setsockopt fails and create_udp_socket closes the
\* socket itself, or the socket is returned.
QueryCreateSocket ==
    /\ pc = "create_udp_socket"
    /\ \/ /\ sock' = sock
          /\ log' = Append(log, Entry("create_udp_socket", -1))
          /\ ret' = -1
          /\ pc' = "returned"
       \/ /\ sock' = [open |-> FALSE, opened |-> sock.opened + 1,
                      closed |-> sock.closed + 1]
          /\ log' = Append(log, Entry("create_udp_socket", -1))
          /\ ret' = -1
          /\ pc' = "returned"
       \/ /\ sock' = [sock EXCEPT !.open = TRUE, !.opened = @ + 1]
          /\ log' = Append(log, Entry("create_udp_socket", 3))
          /\ ret' = ret
          /\ pc' = "inet_pton"
    /\ op' = "query_ntp_server"
    /\ UNCHANGED <<request, response, recv_time, result, tv, p0, wire, sent,
                   received, clock_reads>>
    /\ QueryFixed

\* if (inet_pton(AF_INET, ip_str, ...) != 1) { close(sockfd); return -1; }
QueryInetPton ==
    /\ pc = "inet_pton"
    /\ \/ /\ log' = log \o <<Entry("inet_pton", 0), Entry("close", 0)>>
          /\ sock' = close(sock)
          /\ ret' = -1
          /\ pc' = "returned"
       \/ /\ log' = Append(log, Entry("inet_pton", 1))
          /\ UNCHANGED <<sock, ret>>
          /\ pc' = "build_ntp_request"
    /\ UNCHANGED <<request, response, recv_time, result, tv, op, p0, wire,
                   sent, received, clock_reads>>
    /\ QueryFixed

\* if (build_ntp_request(&request_packet) < 0) ...: the pointer is not
\* NULL, so the request is built.  p0 keeps the request as built.
QueryBuildRequest ==
    /\ pc = "build_ntp_request"
    /\ request' = build_ntp_request(request)
    /\ p0' = request'
    /\ clock_reads' = clock_reads + 1
    /\ log' = Append(log, Entry("build_ntp_request", RC_OK))
    /\ pc' = "print_request"
    /\ UNCHANGED <<response, recv_time, result, tv, op, sock, ret, wire, sent,
                   received>>
    /\ QueryFixed

\* print_ntp_packet_info(&request_packet, "Request", IS_REQUEST): prints,
\* or is killed in ntp_time_to_string when the calendar conversion fails.
QueryPrintRequest ==
    /\ pc = "print_request"
    /\ log' = Append(log, Entry("print_ntp_packet_info(request)", 0))
    /\ \/ pc' = "ntp_to_net" /\ op' = op
       \/ pc' = "killed" /\ op' = "SIGSEGV"
    /\ UNCHANGED <<request, response, recv_time, result, tv, p0, sock, ret,
                   wire, sent, received, clock_reads>>
    /\ QueryFixed

\* ntp_to_net(&request_packet);
QueryNtpToNet ==
    /\ pc = "ntp_to_net"
    /\ request' = ntp_to_net(request)
    /\ log' = Append(log, Entry("ntp_to_net(request)", 0))
    /\ pc' = "send_ntp_request"
    /\ UNCHANGED <<response, recv_time, result, tv, op, p0, sock, ret, wire,
                   sent, received, clock_reads>>
    /\ QueryFixed

\* send_ntp_request succeeds: sendto took the 48 bytes.
QuerySend ==
    /\ pc = "send_ntp_request"
    /\ sent' = PACKET_SIZE
    /\ log' = Append(log, Entry("send_ntp_request", 0))
    /\ pc' = "recv_ntp_response"
    /\ UNCHANGED <<request, response, recv_time, result, tv, op, p0, sock,
                   ret, wire, received, clock_reads>>
    /\ QueryFixed

\* send_ntp_request fails (sent != sizeof(ntp_packet_t)):
\* close(sockfd); return -1;
QuerySendFailed ==
    /\ pc = "send_ntp_request"
    /\ sent' = -1
    /\ log' = log \o <<Entry("send_ntp_request", -1), Entry("close", 0)>>
    /\ sock' = close(sock)
    /\ ret' = -1
    /\ pc' = "returned"
    /\ UNCHANGED <<request, response, recv_time, result, tv, op, p0, wire,
                   received, clock_reads>>
    /\ QueryFixed

\* recv_ntp_response succeeds: recvfrom stored the 48 bytes of the
\* server's reply to the datagram sent, while the clock went on.
QueryRecv ==
    /\ pc = "recv_ntp_response"
    /\ \E T2 \in Times, T3 \in Times :
           /\ ntp_time_to_double(T2) <= ntp_time_to_double(T3)
           /\ wire' = ServerReply(WirePacket(request), T2, T3)
    /\ response' = WirePacket(wire')
    /\ received' = PACKET_SIZE
    /\ \E us \in RoundTrips : tv' = AdvanceClock(tv, us)
    /\ log' = Append(log, Entry("recv_ntp_response", 0))
    /\ pc' = "get_current_ntp_time"
    /\ UNCHANGED <<request, recv_time, result, op, p0, sock, ret, sent,
                   clock_reads>>
    /\ QueryFixed

\* A failing receive that returns without closing the socket.
QueryRecvFailedWithoutClose ==
    /\ pc = "recv_ntp_response"
    /\ \E n \in {-1, 12} :
           /\ received' = n
           /\ response' = IF n < 0 THEN response
                          ELSE [response EXCEPT !.li_vn_mode = 36, !.stratum = 2,
                                                !.poll = 6, !.precision = -24]
    /\ \E us \in RoundTrips : tv' = AdvanceClock(tv, us)
    /\ log' = Append(log, Entry("recv_ntp_response", -1))
    /\ ret' = -1
    /\ pc' = "returned"
    /\ UNCHANGED <<request, recv_time, result, op, p0, sock, wire, sent,
                   clock_reads>>
    /\ QueryFixed

\* recv_ntp_response fails: recvfrom timed out or failed (received < 0), or
\* stored a datagram shorter than a packet (here 12 bytes):
\* close(sockfd); return -1;
QueryRecvFailed ==
    /\ pc = "recv_ntp_response"
    /\ \E n \in {-1, 12} :
           /\ received' = n
           /\ response' = IF n < 0 THEN response
                          ELSE [response EXCEPT !.li_vn_mode = 36, !.stratum = 2,
                                                !.poll = 6, !.precision = -24]
    /\ \E us \in RoundTrips : tv' = AdvanceClock(tv, us)
    /\ log' = log \o <<Entry("recv_ntp_response", -1), Entry("close", 0)>>
    /\ sock' = close(sock)
    /\ ret' = -1
    /\ pc' = "returned"
    /\ UNCHANGED <<request, recv_time, result, op, p0, wire, sent,
                   clock_reads>>
    /\ QueryFixed

\* A capture of T4 that comes after the request was converted back.
QueryCaptureAfterNtpToHost ==
    /\ pc = "get_current_ntp_time"
    /\ request' = ntp_to_host(request)
    /\ recv_time' = get_current_ntp_time
    /\ clock_reads' = clock_reads + 1
    /\ log' = log \o <<Entry("ntp_to_host(request)", 0),
                       Entry("get_current_ntp_time(recv_time)", 0)>>
    /\ pc' = "ntp_to_host_response"
    /\ UNCHANGED <<response, result, tv, op, p0, sock, ret, wire, sent,
                   received>>
    /\ QueryFixed

\* get_current_ntp_time(&recv_time);
QueryCapture ==
    /\ pc = "get_current_ntp_time"
    /\ recv_time' = get_current_ntp_time
    /\ clock_reads' = clock_reads + 1
    /\ log' = Append(log, Entry("get_current_ntp_time(recv_time)", 0))
    /\ pc' = "ntp_to_host_request"
    /\ UNCHANGED <<request, response, result, tv, op, p0, sock, ret, wire,
                   sent, received>>
    /\ QueryFixed

\* A query that leaves the request in network byte order.
QueryNtpToHostRequestLeftOut ==
    /\ pc = "ntp_to_host_request"
    /\ pc' = "ntp_to_host_response"
    /\ UNCHANGED <<request, response, recv_time, result, tv, op, p0, sock,
                   ret, log, wire, sent, received, clock_reads>>
    /\ QueryFixed

\* ntp_to_host(&request_packet);
QueryNtpToHostRequest ==
    /\ pc = "ntp_to_host_request"
    /\ request' = ntp_to_host(request)
    /\ log' = Append(log, Entry("ntp_to_host(request)", 0))
    /\ pc' = "ntp_to_host_response"
    /\ UNCHANGED <<response, recv_time, result, tv, op, p0, sock, ret, wire,
                   sent, received, clock_reads>>
    /\ QueryFixed

\* ntp_to_host(&response_packet);
QueryNtpToHostResponse ==
    /\ pc = "ntp_to_host_response"
    /\ response' = ntp_to_host(response)
    /\ log' = Append(log, Entry("ntp_to_host(response)", 0))
    /\ pc' = "print_response"
    /\ UNCHANGED <<request, recv_time, result, tv, op, p0, sock, ret, wire,
                   sent, received, clock_reads>>
    /\ QueryFixed

\* print_ntp_packet_info(&response_packet, "Response", IS_RESPONSE): prints,
\* or is killed in ntp_time_to_string when the calendar conversion fails.
QueryPrintResponse ==
    /\ pc = "print_response"
    /\ log' = Append(log, Entry("print_ntp_packet_info(response)", 0))
    /\ \/ pc' = "calculate_ntp_offset" /\ op' = op
       \/ pc' = "killed" /\ op' = "SIGSEGV"
    /\ UNCHANGED <<request, response, recv_time, result, tv, p0, sock, ret,
                   wire, sent, received, clock_reads>>
    /\ QueryFixed

\* if (calculate_ntp_offset(&request_packet, &response_packet, &recv_time,
\* &result) < 0) ...: no pointer is NULL, so the result is stored.
QueryCalculate ==
    /\ pc = "calculate_ntp_offset"
    /\ result' = calculate_ntp_offset(request, response, recv_time)
    /\ log' = Append(log, Entry("calculate_ntp_offset", 0))
    /\ pc' = "print_ntp_results"
    /\ UNCHANGED <<request, response, recv_time, tv, op, p0, sock, ret, wire,
                   sent, received, clock_reads>>
    /\ QueryFixed

\* print_ntp_results(&result): prints, or is killed in ntp_time_to_string
\* when the calendar conversion fails.
QueryPrintResults ==
    /\ pc = "print_ntp_results"
    /\ log' = Append(log, Entry("print_ntp_results", 0))
    /\ \/ pc' = "close" /\ op' = op
       \/ pc' = "killed" /\ op' = "SIGSEGV"
    /\ UNCHANGED <<request, response, recv_time, result, tv, p0, sock, ret,
                   wire, sent, received, clock_reads>>
    /\ QueryFixed

\* close(sockfd); return 0;
QueryCloseAndReturn ==
    /\ pc = "close"
    /\ sock' = close(sock)
    /\ log' = Append(log, Entry("close", 0))
    /\ ret' = 0
    /\ pc' = "returned"
    /\ UNCHANGED <<request, response, recv_time, result, tv, op, p0, wire,
                   sent, received, clock_reads>>
    /\ QueryFixed

NextQuery ==
    \/ QueryCreateSocket
    \/ QueryInetPton
    \/ QueryBuildRequest
    \/ QueryPrintRequest
    \/ QueryNtpToNet
    \/ QuerySend
    \/ QuerySendFailed
    \/ QueryRecv
    \/ QueryRecvFailed
    \/ QueryCapture
    \/ QueryNtpToHostRequest
    \/ QueryNtpToHostResponse
    \/ QueryPrintResponse
    \/ QueryCalculate
    \/ QueryPrintResults
    \/ QueryCloseAndReturn

SpecQuery == InitQuery /\ [][NextQuery]_vars

Range(f) == {f[i] : i \in DOMAIN f}

\* The positions of the log at which c was called, and how often it was.
Calls(c) == {i \in DOMAIN log : log[i].call = c}

Count(c) == Cardinality(Calls(c))

LastCall == IF log = <<>> THEN "" ELSE log[Len(log)].call

\* The calls that work on what was received.
AfterCapture ==
    {"ntp_to_host(request)", "ntp_to_host(response)",
     "print_ntp_packet_info(response)", "calculate_ntp_offset",
     "print_ntp_results"}

\* C15: in query_ntp_server T4 is captured with get_current_ntp_time right
\* after recv_ntp_response returned successfully: no call lies between the
\* two, and every byte-order conversion back, every print of the response
\* and the offset calculation come after the capture.
C15_T4CapturedFirst ==
    /\ \A i \in DOMAIN log :
           (log[i] = Entry("recv_ntp_response", 0) /\ i < Len(log))
               => log[i + 1].call = "get_current_ntp_time(recv_time)"
    /\ \A i \in Calls("get_current_ntp_time(recv_time)") :
           i > 1 /\ log[i - 1] = Entry("recv_ntp_response", 0)
    /\ \A i \in DOMAIN log :
           log[i].call \in AfterCapture
               => \E j \in Calls("get_current_ntp_time(recv_time)") : j < i
    /\ Count("get_current_ntp_time(recv_time)") <= 1
    /\ (pc = "returned" /\ ret = 0) => Count("get_current_ntp_time(recv_time)") = 1
    /\ Count("get_current_ntp_time(recv_time)") = 1
           => recv_time = get_current_ntp_time

\* A query that returned 0: T4 was captured once, 1.5 s after the request
\* was stamped.
C15_Witness ==
    /\ pc = "returned"
    /\ ret = 0
    /\ Count("get_current_ntp_time(recv_time)") = 1
    /\ Count("calculate_ntp_offset") = 1
    /\ recv_time = get_current_ntp_time
    /\ ntp_time_to_double(recv_time) = ntp_time_to_double(p0.xmit_time) + 3 * USEC

\* C16: the request is built in host byte order, converted to network order
\* exactly once before it is sent and back exactly once after the receive;
\* the response is converted to host order exactly once; whenever
\* print_ntp_packet_info or calculate_ntp_offset reads a packet it is in
\* host order.
C16_ByteOrderDiscipline ==
    /\ Count("ntp_to_net(request)") <= 1
    /\ Count("ntp_to_host(request)") <= 1
    /\ Count("ntp_to_host(response)") <= 1
    /\ \A i \in Calls("send_ntp_request") :
           \E j \in Calls("ntp_to_net(request)") : j < i
    /\ \A i \in Calls("ntp_to_host(request)") \cup Calls("ntp_to_host(response)") :
           \E j \in Calls("recv_ntp_response") : j < i /\ log[j].rv = 0
    /\ (pc = "returned" /\ ret = 0)
           => /\ Count("ntp_to_net(request)") = 1
              /\ Count("ntp_to_host(request)") = 1
              /\ Count("ntp_to_host(response)") = 1
    /\ LastCall = "build_ntp_request" => request = p0
    /\ LastCall = "send_ntp_request" => WirePacket(request) = p0
    /\ LastCall = "print_ntp_packet_info(request)" => request = p0
    /\ LastCall = "print_ntp_packet_info(response)" => response = wire
    /\ LastCall = "calculate_ntp_offset" => (request = p0 /\ response = wire)
    /\ Count("calculate_ntp_offset") = 1 => wire.orig_time = p0.xmit_time

\* On a little-endian host calculate_ntp_offset has just read both packets:
\* the request is the one built, the response carries the numbers the
\* server sent, and each conversion was made once.
C16_Witness ==
    /\ little_endian
    /\ LastCall = "calculate_ntp_offset"
    /\ request = p0
    /\ response = wire
    /\ response.reference_id = <<207, 66, 79, 103>>
    /\ response.xmit_time /= ZeroTime
    /\ Count("ntp_to_net(request)") = 1
    /\ Count("ntp_to_host(request)") = 1
    /\ Count("ntp_to_host(response)") = 1

\* C17: on every path of query_ntp_server on which create_udp_socket
\* succeeded the socket is closed exactly once before the return; the
\* function returns 0 only when the request was sent, a full 48-byte
\* response was received and calculate_ntp_offset succeeded, and -1
\* otherwise.
C17_SocketClosedOnce ==
    /\ sock.closed <= sock.opened
    /\ sock.opened <= 1
    /\ pc = "returned"
           => /\ ~sock.open
              /\ sock.closed = sock.opened
              /\ Entry("create_udp_socket", 3) \in Range(log)
                     => (Count("close") = 1 /\ sock.closed = 1)
              /\ ret \in {0, -1}
              /\ ret = 0 <=> /\ sent = PACKET_SIZE
                             /\ received = PACKET_SIZE
                             /\ Entry("calculate_ntp_offset", 0) \in Range(log)

\* The query returned -1 after a 12-byte datagram: the request had been
\* sent, and the socket was closed once.
C17_Witness ==
    /\ pc = "returned"
    /\ ret = -1
    /\ sent = PACKET_SIZE
    /\ received = 12
    /\ Count("close") = 1
    /\ sock = [open |-> FALSE, opened |-> 1, closed |-> 1]

====
